---- MODULE Spec2Model ----
(***************************************************************************)
(* Model of the ingest broker (broker_app.py): the upload routes with      *)
(* their detached worker threads and the process-wide IngestApi client,    *)
(* the spreadsheet download route, and the spreadsheet generator's         *)
(* tab_for_type / context_to_path_string.                                  *)
(*                                                                         *)
(* Strings that the program takes apart or puts together (URLs, dotted     *)
(* paths) are sequences of symbols; "/" and "." are symbols of their own.  *)
(***************************************************************************)
EXTENDS Integers, Sequences, FiniteSets, TLC

VARIABLES
    req,            \* per request: the route, the Authorization header, and the
                    \* file part once request.files has been read
    pc,             \* per request: position of the request handler
    exc,            \* per request: the exception raised on the handler's path
    sub,            \* per request: the submission resource create_submission returned
    worker,         \* per request: state of the thread started for it
    resp,           \* per request: the HTTP response returned
    log,            \* per request: the calls the handler has made, in order
    ingest_token,   \* token field of the process-wide ingest_api client
    storage,        \* SpreadsheetStorageService: uuid -> stored spreadsheet
    get_call,       \* the last GET /submissions/<uuid>/spreadsheet and its response
    gen_in,         \* input of the spreadsheet generator call under study
    gen_out         \* its result

vars == <<req, pc, exc, sub, worker, resp, log, ingest_token,
          storage, get_call, gen_in, gen_out>>

brokerVars == <<req, pc, exc, sub, worker, resp, log, ingest_token>>
storeVars == <<storage, get_call>>
genVars == <<gen_in, gen_out>>

----------------------------------------------------------------------------
(* Bounds *)

NumReqs == 2        \* concurrent upload requests

Reqs == 1..NumReqs

----------------------------------------------------------------------------
(* Constants of broker_app.py *)

SPREADSHEET_UPLOAD_MESSAGE ==
    "We've got your spreadsheet, and we're currently importing and validating the data."

SPREADSHEET_UPLOAD_MESSAGE_ERROR ==
    "We experienced a problem while uploading your spreadsheet"

TOKEN_MESSAGE ==
    "An authentication token must be supplied when uploading a spreadsheet"

Routes == {"api_upload", "api_upload_update"}

\* request.headers.get('Authorization') when the header is absent
None == "None"

\* the Authorization header request r carries when it carries one
TokenOf(r) == ToString(r)

\* http codes a SpreadsheetUploadError raised by create_submission may declare
ErrorCodes == {400, 409}

----------------------------------------------------------------------------
(* Values *)

\* request.files is parsed when it is first read: until then the file part
\* of a request is "unread", afterwards "present" or "absent"
NoReq == [route |-> "none", token |-> None, file |-> "unread"]

NoExc == [type |-> "none", http_code |-> 0, message |-> "", details |-> ""]

SpreadsheetUploadError(code, message, details) ==
    [type |-> "SpreadsheetUploadError", http_code |-> code,
     message |-> message, details |-> details]

\* any exception that is not a SpreadsheetUploadError; details carries str(err)
OtherException(text) ==
    [type |-> "Exception", http_code |-> 0, message |-> "", details |-> text]

NoSub == [created |-> FALSE, url |-> <<>>, uuid |-> "", token |-> None,
          is_update |-> FALSE]

NoResp == [status |-> 0, kind |-> "none"]

\* json.dumps(data): the body is the JSON text of the whole object
JsonDumps(data) == [kind |-> "json", data |-> data]

\* a dict handed to response_class as the response iterable: the body is
\* what iterating the dict yields, i.e. its keys
IterDict(data) == [kind |-> "iterable", chunks |-> DOMAIN data]

----------------------------------------------------------------------------
(* Response helpers *)

\* str.rsplit('/', 1)[-1]: what follows the last "/", the whole string
\* when it has none
RECURSIVE RSplitLast(_)
RSplitLast(s) ==
    IF s = <<>> THEN <<>>
    ELSE IF s[Len(s)] = "/" THEN <<>>
    ELSE Append(RSplitLast(SubSeq(s, 1, Len(s) - 1)), s[Len(s)])

_failure_response(status_code, message, details) ==
    [status |-> status_code, kind |-> "failure",
     body |-> JsonDumps([message |-> message, details |-> details])]

_success_response(submission_resource) ==
    [status |-> 201, kind |-> "success",
     body |-> JsonDumps(
        [message |-> SPREADSHEET_UPLOAD_MESSAGE,
         details |-> [submission_url |-> submission_resource.url,
                      submission_uuid |-> submission_resource.uuid,
                      submission_id |-> RSplitLast(submission_resource.url)]])]

\* Flask's answer to an exception no handler of the view caught
UnhandledExceptionResponse ==
    [status |-> 500, kind |-> "framework",
     body |-> [kind |-> "html", data |-> "Internal Server Error"]]

----------------------------------------------------------------------------
(* ingest_api.create_submission: the resource the ingest API answers with.  *)
(* The call is made with the token the client holds at that moment.         *)

SubmissionResource(r, is_update) ==
    [created |-> TRUE,
     url |-> <<"http:", "/", "/", "api", "/", "submissionEnvelopes", "/", ToString(r)>>,
     uuid |-> "uuid-" \o ToString(r),
     token |-> ingest_token,
     is_update |-> is_update]

----------------------------------------------------------------------------
(* Upload routes *)

BrokerInit ==
    /\ req = [r \in Reqs |-> NoReq]
    /\ pc = [r \in Reqs |-> "idle"]
    /\ exc = [r \in Reqs |-> NoExc]
    /\ sub = [r \in Reqs |-> NoSub]
    /\ worker = [r \in Reqs |-> "none"]
    /\ resp = [r \in Reqs |-> NoResp]
    /\ log = [r \in Reqs |-> <<>>]
    /\ ingest_token = None

\* _set_token: assigns the client's token before it looks at it
_set_token(r, token) ==
    /\ ingest_token' = token
    /\ log' = [log EXCEPT ![r] = Append(@, "set_token")]

\* the SpreadsheetUploadError _set_token raises when the header is absent
TokenError == SpreadsheetUploadError(401, TOKEN_MESSAGE, "")

\* what _upload_spreadsheet's except clauses answer for exception e
ExceptResponse(e) ==
    IF e.type = "SpreadsheetUploadError"
    THEN _failure_response(e.http_code, e.message, e.details)
    ELSE _failure_response(500, SPREADSHEET_UPLOAD_MESSAGE_ERROR, e.details)

Raise(r, e) ==
    /\ exc' = [exc EXCEPT ![r] = e]
    /\ resp' = [resp EXCEPT ![r] = ExceptResponse(e)]
    /\ pc' = [pc EXCEPT ![r] = "done"]

\* _upload_spreadsheet, first statement of its try: _set_token()
TrySetToken(r, token) ==
    /\ _set_token(r, token)
    /\ IF token = None
       THEN Raise(r, TokenError)
       ELSE /\ pc' = [pc EXCEPT ![r] = "create"]
            /\ UNCHANGED <<exc, resp>>
    /\ UNCHANGED <<sub, worker>>

\* POST /api_upload arrives: upload_spreadsheet enters _upload_spreadsheet
upload_spreadsheet(r) ==
    /\ pc[r] = "idle"
    /\ \E token \in {None, TokenOf(r)} :
        /\ req' = [req EXCEPT ![r] = [route |-> "api_upload", token |-> token,
                                      file |-> "unread"]]
        /\ TrySetToken(r, token)

\* POST /api_upload_update arrives: upload_update_spreadsheet calls
\* _set_token() itself, outside any try, before _upload_spreadsheet
upload_update_spreadsheet(r) ==
    /\ pc[r] = "idle"
    /\ \E token \in {None, TokenOf(r)} :
        /\ req' = [req EXCEPT ![r] = [route |-> "api_upload_update",
                                      token |-> token, file |-> "unread"]]
        /\ _set_token(r, token)
        /\ IF token = None
           THEN /\ exc' = [exc EXCEPT ![r] = TokenError]
                /\ resp' = [resp EXCEPT ![r] = UnhandledExceptionResponse]
                /\ pc' = [pc EXCEPT ![r] = "done"]
           ELSE /\ pc' = [pc EXCEPT ![r] = "upload"]
                /\ UNCHANGED <<exc, resp>>
    /\ UNCHANGED <<sub, worker>>

\* _upload_spreadsheet(is_update=True) as entered from upload_update_spreadsheet
UploadUpdate(r) ==
    /\ pc[r] = "upload"
    /\ TrySetToken(r, req[r].token)
    /\ UNCHANGED req

\* _async_upload, first line: ingest_api.create_submission
CreateSubmission(r) ==
    /\ pc[r] = "create"
    /\ log' = [log EXCEPT ![r] = Append(@, "create_submission")]
    /\ \/ /\ sub' = [sub EXCEPT ![r] =
                        SubmissionResource(r, req[r].route = "api_upload_update")]
          /\ pc' = [pc EXCEPT ![r] = "start"]
          /\ UNCHANGED <<exc, resp>>
       \/ /\ \E code \in ErrorCodes :
                Raise(r, SpreadsheetUploadError(code, "submission refused", "no details"))
          /\ UNCHANGED sub
       \/ /\ Raise(r, OtherException("connection error"))
          /\ UNCHANGED sub
    /\ UNCHANGED <<req, worker, ingest_token>>

\* the worker started with request.files.get('file'): no KeyError without the part
StartWorkerIgnoringFile(r) ==
    /\ pc[r] = "start"
    /\ \E file \in {"present", "absent"} :
            req' = [req EXCEPT ![r].file = file]
    /\ worker' = [worker EXCEPT ![r] = "running"]
    /\ log' = [log EXCEPT ![r] = Append(@, "start_worker")]
    /\ pc' = [pc EXCEPT ![r] = "respond"]
    /\ UNCHANGED <<exc, resp, sub, ingest_token>>

\* _async_upload: threading.Thread(..., args=(..., request.files['file'], ...)).start()
\* request.files['file'] raises a KeyError subclass when the part is absent
StartWorker(r) ==
    /\ pc[r] = "start"
    /\ \/ /\ req' = [req EXCEPT ![r].file = "present"]
          /\ worker' = [worker EXCEPT ![r] = "running"]
          /\ log' = [log EXCEPT ![r] = Append(@, "start_worker")]
          /\ pc' = [pc EXCEPT ![r] = "respond"]
          /\ UNCHANGED <<exc, resp>>
       \/ /\ req' = [req EXCEPT ![r].file = "absent"]
          /\ Raise(r, OtherException("400 Bad Request"))
          /\ UNCHANGED <<worker, log>>
    /\ UNCHANGED <<sub, ingest_token>>

\* the handler joining its thread before it answers
RespondAfterJoin(r) ==
    /\ pc[r] = "respond"
    /\ worker[r] \in {"done", "failed"}
    /\ resp' = [resp EXCEPT ![r] = _success_response(sub[r])]
    /\ log' = [log EXCEPT ![r] = Append(@, "respond")]
    /\ pc' = [pc EXCEPT ![r] = "done"]
    /\ UNCHANGED <<req, exc, sub, worker, ingest_token>>

\* the handler answering with the outcome of a worker that has already failed
RespondWorkerOutcome(r) ==
    /\ pc[r] = "respond"
    /\ resp' = [resp EXCEPT ![r] =
            IF worker[r] = "failed"
            THEN _failure_response(500, SPREADSHEET_UPLOAD_MESSAGE_ERROR, "upload failed")
            ELSE _success_response(sub[r])]
    /\ log' = [log EXCEPT ![r] = Append(@, "respond")]
    /\ pc' = [pc EXCEPT ![r] = "done"]
    /\ UNCHANGED <<req, exc, sub, worker, ingest_token>>

\* _upload_spreadsheet, else clause: return _success_response(submission_resource)
Respond(r) ==
    /\ pc[r] = "respond"
    /\ resp' = [resp EXCEPT ![r] = _success_response(sub[r])]
    /\ log' = [log EXCEPT ![r] = Append(@, "respond")]
    /\ pc' = [pc EXCEPT ![r] = "done"]
    /\ UNCHANGED <<req, exc, sub, worker, ingest_token>>

\* spreadsheet_upload_service.upload on its thread: it ends normally or with
\* an exception that is only logged; it reads the client's token, never sets it
WorkerSucceed(r) ==
    /\ worker[r] = "running"
    /\ worker' = [worker EXCEPT ![r] = "done"]
    /\ UNCHANGED <<req, pc, exc, sub, resp, log, ingest_token>>

WorkerFail(r) ==
    /\ worker[r] = "running"
    /\ worker' = [worker EXCEPT ![r] = "failed"]
    /\ UNCHANGED <<req, pc, exc, sub, resp, log, ingest_token>>

\* the steps of request r's handler after its entry
Handler(r) ==
    \/ UploadUpdate(r)
    \/ CreateSubmission(r)
    \/ StartWorker(r)
    \/ Respond(r)

----------------------------------------------------------------------------
(* Spreadsheet download route *)

NumUuids == 3       \* submission uuids a download may ask for

Uuids == 1..NumUuids

SheetNames == {"a.xlsx", "b.xlsx"}
SheetBlobs == {"blob-1", "blob-2"}

NoSheet == [stored |-> FALSE, name |-> "", blob |-> ""]
Sheets == [stored : {TRUE}, name : SheetNames, blob : SheetBlobs]

NoCall == [uuid |-> 0, status |-> 0]

\* SpreadsheetStorageService.retrieve: the stored {"name", "blob"}, or
\* SubmissionSpreadsheetDoesntExist when nothing is stored for the uuid
RetrieveRaises(submission_uuid) == ~storage[submission_uuid].stored

\* f'No spreadsheet found for submission with uuid {submission_uuid}'
NotFoundMessage(submission_uuid) ==
    <<"No spreadsheet found for submission with uuid ", submission_uuid>>

\* the response of the except branch: a dict is handed over as the response
NotFoundResponse(submission_uuid) ==
    [uuid |-> submission_uuid, status |-> 404, mimetype |-> "application/json",
     body |-> IterDict([message |-> NotFoundMessage(submission_uuid)])]

\* send_file(io.BytesIO(blob), mimetype=..., as_attachment=True, attachment_filename=name)
SendFile(submission_uuid, spreadsheet) ==
    [uuid |-> submission_uuid, status |-> 200,
     mimetype |-> "application/octet-stream",
     as_attachment |-> TRUE, attachment_filename |-> spreadsheet.name,
     body |-> [kind |-> "binary", data |-> spreadsheet.blob]]

get_submission_spreadsheet(submission_uuid) ==
    /\ get_call' = IF RetrieveRaises(submission_uuid)
                   THEN NotFoundResponse(submission_uuid)
                   ELSE SendFile(submission_uuid, storage[submission_uuid])
    /\ UNCHANGED storage

----------------------------------------------------------------------------
(* Spreadsheet generator *)

MaxWordLen == 1         \* symbols in one context element
MaxContextLen == 3      \* elements in a context
MaxFields == 1          \* own fields of a TypeSpec

Alphabet == {"a", "b", "."}

\* all sequences over S of length at most n
SeqsUpTo(S, n) == UNION {[1..k -> S] : k \in 0..n}

\* the sequences over S that repeat no element, of length at most n
DistinctSeqsUpTo(S, n) ==
    {q \in SeqsUpTo(S, n) : \A i, j \in DOMAIN q : q[i] = q[j] => i = j}

Words == SeqsUpTo(Alphabet, MaxWordLen)
Contexts == SeqsUpTo(Words, MaxContextLen)

\* a name as a string of one symbol
Str(name) == <<name>>

\* context_to_path_string with a trailing separator after every element
JoinTrailingDot(context) ==
    LET F[i \in 0..Len(context)] ==
            IF i = 0 THEN <<>> ELSE F[i - 1] \o context[i] \o <<".">>
    IN F[Len(context)]

\* SpreadsheetGenerator.context_to_path_string: ".".join(context)
context_to_path_string(context) ==
    LET F[i \in 0..Len(context)] ==
            IF i = 0 THEN <<>>
            ELSE IF i = 1 THEN context[1]
            ELSE F[i - 1] \o <<".">> \o context[i]
    IN F[Len(context)]

FieldNames == {"f", "g"}
LinkTypeNames == {"donor_organism", "specimen_from_organism"}

LinkSpec(linked_types, linked_multivalue_types) ==
    [linked_types |-> linked_types,
     linked_multivalue_types |-> linked_multivalue_types]

TypeSpec(name, own_fields, nested_specs, is_multivalue, link_spec) ==
    [name |-> name, own_fields |-> own_fields, nested_specs |-> nested_specs,
     is_multivalue |-> is_multivalue, link_spec |-> link_spec]

FieldLists == DistinctSeqsUpTo(FieldNames, MaxFields)
LinkLists == DistinctSeqsUpTo(LinkTypeNames, Cardinality(LinkTypeNames))

\* embedded sub-objects: no nesting of their own, no links
NestedSpecs ==
    {TypeSpec("biomaterial_core", f, <<>>, FALSE, LinkSpec(<<>>, <<>>)) :
        f \in FieldLists}

TypeSpecs ==
    {TypeSpec("cell_suspension", f, n, m, LinkSpec(l, lm)) :
        f \in FieldLists, n \in SeqsUpTo(NestedSpecs, 1), m \in BOOLEAN,
        l \in LinkLists, lm \in LinkLists}

Column(path, is_link) == [path |-> path, is_link |-> is_link]

\* a link column named after the type that holds the link
LinkColumnOwnName(spec, linked_type) ==
    Column(context_to_path_string(
               <<Str(spec.name), Str("biomaterial_core"), Str("biomaterial_id")>>),
           TRUE)

\* the column of a link to linked_type: that type's identifying field
LinkColumn(spec, linked_type) ==
    Column(context_to_path_string(
               <<Str(linked_type), Str("biomaterial_core"), Str("biomaterial_id")>>),
           TRUE)

\* one column per own field, at the given context
FieldColumns(spec, context) ==
    [i \in 1..Len(spec.own_fields) |->
        Column(context_to_path_string(Append(context, Str(spec.own_fields[i]))),
               FALSE)]

\* the columns of the embedded sub-objects, each under its own name
RECURSIVE NestedColumns(_, _)
NestedColumns(spec, context) ==
    LET F[i \in 0..Len(spec.nested_specs)] ==
            IF i = 0 THEN <<>>
            ELSE LET n == spec.nested_specs[i]
                     c == Append(context, Str(n.name))
                 IN F[i - 1] \o FieldColumns(n, c) \o NestedColumns(n, c)
    IN F[Len(spec.nested_specs)]

LinkColumns(spec) ==
    LET links == spec.link_spec.linked_types \o spec.link_spec.linked_multivalue_types
    IN [i \in 1..Len(links) |-> LinkColumn(spec, links[i])]

\* SpreadsheetGenerator.tab_for_type
tab_for_type(spec) ==
    [columns |-> FieldColumns(spec, <<>>) \o NestedColumns(spec, <<>>)
                    \o LinkColumns(spec)]

NotRun == [done |-> FALSE]

GenInputs ==
    {[op |-> "context_to_path_string", arg |-> c] : c \in Contexts}
    \cup {[op |-> "tab_for_type", arg |-> t] : t \in TypeSpecs}

CallContextToPathString ==
    /\ gen_in.op = "context_to_path_string"
    /\ ~gen_out.done
    /\ gen_out' = [done |-> TRUE, value |-> context_to_path_string(gen_in.arg)]
    /\ UNCHANGED gen_in

CallTabForType ==
    /\ gen_in.op = "tab_for_type"
    /\ ~gen_out.done
    /\ gen_out' = [done |-> TRUE, value |-> tab_for_type(gen_in.arg)]
    /\ UNCHANGED gen_in

----------------------------------------------------------------------------
(* Specifications *)

StoreIdle ==
    /\ storage = [u \in Uuids |-> NoSheet]
    /\ get_call = NoCall

GenIdle ==
    /\ gen_in = [op |-> "none"]
    /\ gen_out = NotRun

\* the upload routes and their workers
Init == BrokerInit /\ StoreIdle /\ GenIdle

Next ==
    \/ \E r \in Reqs : upload_spreadsheet(r) /\ UNCHANGED <<storeVars, genVars>>
    \/ \E r \in Reqs : upload_update_spreadsheet(r) /\ UNCHANGED <<storeVars, genVars>>
    \/ \E r \in Reqs : UploadUpdate(r) /\ UNCHANGED <<storeVars, genVars>>
    \/ \E r \in Reqs : CreateSubmission(r) /\ UNCHANGED <<storeVars, genVars>>
    \/ \E r \in Reqs : StartWorker(r) /\ UNCHANGED <<storeVars, genVars>>
    \/ \E r \in Reqs : Respond(r) /\ UNCHANGED <<storeVars, genVars>>
    \/ \E r \in Reqs : WorkerSucceed(r) /\ UNCHANGED <<storeVars, genVars>>
    \/ \E r \in Reqs : WorkerFail(r) /\ UNCHANGED <<storeVars, genVars>>

Spec == Init /\ [][Next]_vars

\* Flask runs the handlers to their return: as long as some handler has a
\* step to take, one is taken; a worker thread may never end
FairSpec ==
    Spec /\ WF_vars(\E r \in Reqs : Handler(r) /\ UNCHANGED <<storeVars, genVars>>)

\* the download route over any content of the spreadsheet store
StoreInit ==
    /\ BrokerInit /\ GenIdle
    /\ storage \in [Uuids -> Sheets \cup {NoSheet}]
    /\ get_call = NoCall

StoreNext ==
    \E u \in Uuids :
        get_submission_spreadsheet(u) /\ UNCHANGED <<brokerVars, genVars>>

StoreSpec == StoreInit /\ [][StoreNext]_vars

\* the generator's functions over all inputs within the bounds
GenInit ==
    /\ BrokerInit /\ StoreIdle
    /\ gen_in \in GenInputs
    /\ gen_out = NotRun

GenNext ==
    \/ CallContextToPathString /\ UNCHANGED <<brokerVars, storeVars>>
    \/ CallTabForType /\ UNCHANGED <<brokerVars, storeVars>>

GenSpec == GenInit /\ [][GenNext]_vars

----------------------------------------------------------------------------
(* Properties of the upload routes *)

Count(l, e) == Cardinality({i \in DOMAIN l : l[i] = e})

IsPrefix(l, m) == Len(l) <= Len(m) /\ l = SubSeq(m, 1, Len(l))

\* id is what follows the last "/" of url
IsLastSegment(id, url) ==
    /\ \A i \in DOMAIN id : id[i] # "/"
    /\ Len(id) <= Len(url)
    /\ id = SubSeq(url, Len(url) - Len(id) + 1, Len(url))
    /\ Len(id) < Len(url) => url[Len(url) - Len(id)] = "/"

\* C1: on both upload routes a request without an Authorization header is
\* answered with HTTP 401 and the JSON body {message: token must be
\* supplied, details: ""}.
C1_MissingTokenIs401 ==
    \A r \in Reqs :
        (pc[r] = "done" /\ req[r].token = None) =>
            /\ resp[r].status = 401
            /\ resp[r].body.kind = "json"
            /\ resp[r].body.data = [message |-> TOKEN_MESSAGE, details |-> ""]

\* C2: on the synchronous path a raised SpreadsheetUploadError is answered
\* with that error's http_code, message and details, any other exception
\* with HTTP 500 and the generic message, and otherwise the answer is 201
\* with submission_url, submission_uuid and submission_id, the last
\* "/"-separated segment of submission_url.
C2_SyncPathResponses ==
    \A r \in Reqs :
        pc[r] = "done" =>
            CASE exc[r].type = "SpreadsheetUploadError" ->
                    /\ resp[r].status = exc[r].http_code
                    /\ resp[r].body.kind = "json"
                    /\ resp[r].body.data.message = exc[r].message
                    /\ resp[r].body.data.details = exc[r].details
              [] exc[r].type = "Exception" ->
                    /\ resp[r].status = 500
                    /\ resp[r].body.kind = "json"
                    /\ resp[r].body.data.message = SPREADSHEET_UPLOAD_MESSAGE_ERROR
              [] OTHER ->
                    /\ resp[r].status = 201
                    /\ resp[r].body.kind = "json"
                    /\ resp[r].body.data.details.submission_url = sub[r].url
                    /\ resp[r].body.data.details.submission_uuid = sub[r].uuid
                    /\ IsLastSegment(resp[r].body.data.details.submission_id,
                                     sub[r].url)

\* C3 as claimed: in no interleaving does a worker finish before the
\* handler of its request has returned the response.
C3_ResponseBeforeWorkerEnds ==
    \A r \in Reqs : worker[r] \in {"done", "failed"} => resp[r].status # 0

\* C3 as amended: the handler returns its response after starting the
\* worker and without waiting for it; the response step can be taken
\* whatever the worker's state, so the worker may end before or after it.
C3_HandlerNeverWaits ==
    \A r \in Reqs :
        /\ pc[r] = "respond" => worker[r] # "none" /\ ENABLED Respond(r)
        /\ resp[r].status = 201 => worker[r] # "none"

C3_Witness ==
    \E r \in Reqs : pc[r] = "respond" /\ worker[r] \in {"done", "failed"}

\* C4: once the worker of a request has been started the response to that
\* request is 201, whether the worker succeeds, fails or never ends, and
\* the handler eventually returns without waiting for the worker: from some
\* point on every request whose worker was started has been answered 201
\* (a started worker and a returned response both stay as they are).
C4_AsyncErrorsNotSurfaced ==
    /\ [](\A r \in Reqs :
            (worker[r] # "none" /\ pc[r] = "done") => resp[r].status = 201)
    /\ <>[](\A r \in Reqs :
            worker[r] # "none" => (pc[r] = "done" /\ resp[r].status = 201))

C4_Witness ==
    /\ \E r \in Reqs : worker[r] = "failed" /\ resp[r].status = 201
    /\ \E r \in Reqs : worker[r] = "running" /\ resp[r].status = 201

\* the handler's calls in order: /api_upload, and /api_upload_update with
\* its additional _set_token
CallOrders ==
    {<<"set_token", "create_submission", "start_worker", "respond">>,
     <<"set_token", "set_token", "create_submission", "start_worker", "respond">>}

WorkersStarted(r) == Count(log[r], "start_worker")

\* C8 as claimed: a request starts exactly one worker if and only if its
\* submission was created.
C8_WorkerIffCreated ==
    \A r \in Reqs :
        pc[r] = "done" => (WorkersStarted(r) = 1 <=> sub[r].created)

\* C8 as amended: each request sets the token, then creates the submission,
\* then starts the worker, then responds; it starts exactly one worker if
\* and only if the submission was created and the request carries the file
\* part, and none when the token is missing, create_submission raises or
\* the file part is absent; only a handler's _set_token assigns the
\* client's token, never a worker.
C8_OrderAndOneWorker ==
    /\ [](\A r \in Reqs :
            /\ \E o \in CallOrders : IsPrefix(log[r], o)
            /\ WorkersStarted(r) <= 1
            /\ worker[r] # "none" <=> WorkersStarted(r) = 1
            /\ pc[r] = "done" =>
                    (WorkersStarted(r) = 1 <=> sub[r].created /\ req[r].file = "present")
            /\ (pc[r] = "done" /\ (req[r].token = None \/ ~sub[r].created)) =>
                    WorkersStarted(r) = 0)
    /\ [][/\ ingest_token' # ingest_token =>
                \E r \in Reqs : log'[r] = Append(log[r], "set_token")
          /\ \A r \in Reqs :
                (worker[r] = "running" /\ worker'[r] # "running") =>
                    ingest_token' = ingest_token]_vars

C8_Witness ==
    \E r \in Reqs :
        /\ pc[r] = "done" /\ sub[r].created /\ req[r].file = "absent"
        /\ \E q \in Reqs : pc[q] = "done" /\ worker[q] = "done"

\* C9: whenever a request's submission is created, and at every step of its
\* worker, the shared client holds the token that request supplied.
C9_TokenIsOwn ==
    [][\A r \in Reqs :
        /\ (~sub[r].created /\ sub'[r].created) => sub'[r].token = req[r].token
        /\ (worker[r] = "running" /\ worker'[r] # "running") =>
                ingest_token = req[r].token]_vars

\* C10: rejecting a request for its missing Authorization header creates no
\* submission, starts no worker and leaves the client's token as it was.
C10_RejectionChangesNothing ==
    [][\A r \in Reqs :
        (pc[r] # "done" /\ pc'[r] = "done" /\ req'[r].token = None) =>
            /\ ingest_token' = ingest_token
            /\ sub' = sub
            /\ worker' = worker]_vars

----------------------------------------------------------------------------
(* Properties of the download route *)

\* C5: the download answers with the stored bytes as an attachment under
\* the stored name, or, when nothing is stored for the uuid, with HTTP 404
\* and a JSON body whose message names the uuid.
C5_DownloadResponses ==
    get_call.status # 0 =>
        IF storage[get_call.uuid].stored
        THEN /\ get_call.status = 200
             /\ get_call.as_attachment
             /\ get_call.attachment_filename = storage[get_call.uuid].name
             /\ get_call.body.kind = "binary"
             /\ get_call.body.data = storage[get_call.uuid].blob
        ELSE /\ get_call.status = 404
             /\ get_call.body.kind = "json"
             /\ \E i \in DOMAIN get_call.body.data.message :
                    get_call.body.data.message[i] = get_call.uuid

----------------------------------------------------------------------------
(* Properties of the spreadsheet generator *)

\* where element i of context starts in the joined path, less one
Offset(context, i) ==
    LET F[k \in 0..Len(context)] ==
            IF k = 0 THEN 0 ELSE F[k - 1] + Len(context[k]) + 1
    IN F[i - 1]

\* C6: context_to_path_string(C) is the elements of C joined with ".": ""
\* for the empty sequence, the element itself for one element, and
\* otherwise the elements in order with one dot between neighbours.
C6_JoinedWithDots ==
    (gen_in.op = "context_to_path_string" /\ gen_out.done) =>
        LET C == gen_in.arg
            p == gen_out.value
            n == Len(C)
        IN /\ n = 0 => p = <<>>
           /\ n = 1 => p = C[1]
           /\ n >= 1 => Len(p) = Offset(C, n) + Len(C[n])
           /\ \A i \in 1..n :
                /\ SubSeq(p, Offset(C, i) + 1, Offset(C, i) + Len(C[i])) = C[i]
                /\ i < n => p[Offset(C, i) + Len(C[i]) + 1] = "."

C6_Witness ==
    /\ gen_in.op = "context_to_path_string" /\ gen_out.done
    /\ Len(gen_in.arg) = 3
    /\ gen_in.arg[2] = <<>>
    /\ gen_out.value = <<"a", ".", ".", "b">>

\* the path <type>.biomaterial_core.biomaterial_id
IdPath(type) == <<type, ".", "biomaterial_core", ".", "biomaterial_id">>

\* C7: tab_for_type yields, for every type T of link_spec.linked_types, a
\* link column with path T.biomaterial_core.biomaterial_id; a TypeSpec
\* without fields and nested specs that links donor_organism yields the
\* column donor_organism.biomaterial_core.biomaterial_id.
C7_LinkColumns ==
    (gen_in.op = "tab_for_type" /\ gen_out.done) =>
        LET t == gen_in.arg
            cols == gen_out.value.columns
        IN /\ \A i \in DOMAIN t.link_spec.linked_types :
                \E j \in DOMAIN cols :
                    /\ cols[j].path = IdPath(t.link_spec.linked_types[i])
                    /\ cols[j].is_link
           /\ (/\ t.own_fields = <<>>
               /\ t.nested_specs = <<>>
               /\ t.link_spec.linked_types = <<"donor_organism">>) =>
                \E j \in DOMAIN cols :
                    cols[j].path = <<"donor_organism", ".", "biomaterial_core",
                                     ".", "biomaterial_id">>

C7_Witness ==
    /\ gen_in.op = "tab_for_type" /\ gen_out.done
    /\ gen_in.arg = TypeSpec("cell_suspension", <<>>, <<>>, FALSE,
                             LinkSpec(<<"donor_organism">>, <<>>))
    /\ Len(gen_out.value.columns) = 1

====
